---- MODULE Spec2Model ----
(***************************************************************************)
(* Judge engine of dpaiton/agents (src/orchestration/judge.py).            *)
(*                                                                         *)
(* A judge text is a sequence of tokens.  Every token stands for a fixed   *)
(* run of characters; the regular expressions of the parser are modelled   *)
(* on the token sequence by the character classes the tokens fall into.    *)
(* A numeric token expands to its characters (Chars), so that what the     *)
(* pattern [\d.]+ captures and what float() and int() make of it are       *)
(* computed, not assumed.                                                  *)
(***************************************************************************)
EXTENDS Integers, Sequences, FiniteSets, TLC

\* ------------------------------------------------------------------------
\* Bounds of the model
\* ------------------------------------------------------------------------
MaxTextLen == 4

MaxRubricLen == 2

MaxEvalBlocks == 3

MaxWinnerBlocks == 2

MaxJudges == 3

\* ------------------------------------------------------------------------
\* Tokens and their character classes
\* ------------------------------------------------------------------------
Digits == <<"0", "1", "2", "3", "4", "5", "6", "7", "8", "9">>

DigitVal(c) == (CHOOSE n \in 1..10 : Digits[n] = c) - 1

RECURSIVE Rep(_, _)
Rep(c, n) == IF n = 0 THEN <<>> ELSE <<c>> \o Rep(c, n - 1)

\* The numeric tokens: runs of characters of the class [\d.]
NumTokens ==
    {"3", "4", "5", "7", "3.0", "3.5", "3.00000000000000001", "2.99999999999999999"}

Chars(tok) ==
    CASE tok = "3" -> <<"3">>
      [] tok = "4" -> <<"4">>
      [] tok = "5" -> <<"5">>
      [] tok = "7" -> <<"7">>
      [] tok = "3.0" -> <<"3", ".", "0">>
      [] tok = "3.5" -> <<"3", ".", "5">>
      [] tok = "3.00000000000000001" -> <<"3", ".">> \o Rep("0", 16) \o <<"1">>
      [] tok = "2.99999999999999999" -> <<"2", ".">> \o Rep("9", 17)

IsNum(tok) == tok \in NumTokens

IsWS(tok) == tok = " "

IsReasoningKw(tok) == tok \in {"Reasoning:", "reasoning:"}

IsScoreKw(tok) == tok \in {"Score:", "score:"}

ParseAlphabet ==
    {"Reasoning:", "Score:", " ", "x", "3", "7", "3.0", "3.5",
     "3.00000000000000001", "2.99999999999999999"}

RECURSIVE SeqsUpTo(_, _)
SeqsUpTo(S, n) ==
    IF n = 0 THEN {<<>>}
    ELSE LET shorter == SeqsUpTo(S, n - 1)
         IN  shorter \cup {Append(s, t) : s \in shorter, t \in S}

ParseTexts == SeqsUpTo(ParseAlphabet, MaxTextLen)

\* ------------------------------------------------------------------------
\* re.search(r"[Rr]easoning:\s*(.+?)(?=[Ss]core:|$)", response, re.DOTALL)
\* ------------------------------------------------------------------------
\* \s* is greedy: the first index at or after k that holds no whitespace
RECURSIVE SkipWS(_, _)
SkipWS(text, k) ==
    IF k <= Len(text) /\ IsWS(text[k]) THEN SkipWS(text, k + 1) ELSE k

\* (.+?)(?=[Ss]core:|$) is lazy: it takes at least one character and stops
\* at the first place followed by "Score:" or by the end of the text
RECURSIVE LazyEnd(_, _)
LazyEnd(text, e) ==
    IF e >= Len(text) \/ IsScoreKw(text[e + 1]) THEN e ELSE LazyEnd(text, e + 1)

\* One attempt of the pattern with "Reasoning:" at index i.  When nothing but
\* whitespace follows the keyword, \s* gives its last character back to (.+?).
ReasoningAt(text, i) ==
    LET k == SkipWS(text, i + 1)
    IN  IF k <= Len(text)
        THEN [found |-> TRUE, at |-> i,
              group |-> SubSeq(text, k, LazyEnd(text, k))]
        ELSE IF k > i + 1
             THEN [found |-> TRUE, at |-> i, group |-> <<text[Len(text)]>>]
             ELSE [found |-> FALSE, at |-> 0, group |-> <<>>]

RECURSIVE ReasoningSearch(_, _)
ReasoningSearch(text, i) ==
    IF i > Len(text) THEN [found |-> FALSE, at |-> 0, group |-> <<>>]
    ELSE IF IsReasoningKw(text[i]) /\ ReasoningAt(text, i).found
         THEN ReasoningAt(text, i)
         ELSE ReasoningSearch(text, i + 1)

reasoning_match(response) == ReasoningSearch(response, 1)

\* str.strip()
RECURSIVE LStrip(_)
LStrip(s) == IF s # <<>> /\ IsWS(Head(s)) THEN LStrip(Tail(s)) ELSE s

RECURSIVE RStrip(_)
RStrip(s) ==
    IF s # <<>> /\ IsWS(s[Len(s)]) THEN RStrip(SubSeq(s, 1, Len(s) - 1)) ELSE s

Strip(s) == RStrip(LStrip(s))

\* ------------------------------------------------------------------------
\* re.search(r"[Ss]core:\s*([\d.]+)", response)
\* ------------------------------------------------------------------------
\* ([\d.]+) is greedy: the characters of the whole run of numeric tokens
RECURSIVE NumRun(_, _)
NumRun(text, k) ==
    IF k <= Len(text) /\ IsNum(text[k])
    THEN Chars(text[k]) \o NumRun(text, k + 1)
    ELSE <<>>

RECURSIVE ScoreSearch(_, _)
ScoreSearch(text, i) ==
    IF i > Len(text) THEN [found |-> FALSE, at |-> 0, group |-> <<>>]
    ELSE IF IsScoreKw(text[i]) /\ NumRun(text, SkipWS(text, i + 1)) # <<>>
         THEN [found |-> TRUE, at |-> i,
               group |-> NumRun(text, SkipWS(text, i + 1))]
         ELSE ScoreSearch(text, i + 1)

score_match(response) == ScoreSearch(response, 1)

\* ------------------------------------------------------------------------
\* int(score_str) and float(score_str) on a run of the characters [\d.]
\* ------------------------------------------------------------------------
HasDot(cs) == \E i \in 1..Len(cs) : cs[i] = "."

DotAt(cs) == CHOOSE i \in 1..Len(cs) : cs[i] = "."

\* int() of a run of decimal digits
RECURSIVE DigitsToInt(_)
DigitsToInt(cs) ==
    IF cs = <<>> THEN 0
    ELSE 10 * DigitsToInt(SubSeq(cs, 1, Len(cs) - 1)) + DigitVal(cs[Len(cs)])

DigitVals(cs) == [i \in 1..Len(cs) |-> DigitVal(cs[i])]

\* float() accepts the run when it has exactly one "." and at least one digit
FloatParses(cs) ==
    /\ Cardinality({i \in 1..Len(cs) : cs[i] = "."}) = 1
    /\ Len(cs) >= 2

\* A decimal fraction 0.d1d2...dn is held as its digits <<d1, ..., dn>>.
\* Half of such a fraction, by long division: every digit of the quotient
\* depends on its own digit and on the parity of the digit before it.
Halve(ds) ==
    SubSeq([i \in 1..(Len(ds) + 1) |->
               ((IF i > 1 THEN ds[i - 1] % 2 ELSE 0) * 10
                   + (IF i <= Len(ds) THEN ds[i] ELSE 0)) \div 2],
           1, Len(ds) + 1)

\* A double carries a significand of 53 bits
MantissaBits == 53

\* The table <<2^-1, 2^-2, ...>> one entry longer
Grow(t) == Append(t, Halve(t[Len(t)]))

Grow8(t) == Grow(Grow(Grow(Grow(Grow(Grow(Grow(Grow(t))))))))

\* The table is built in stages of eight entries, each stage a value of
\* its own, which keeps the evaluation shallow
Pow2NegUpTo9 == Grow8(<< <<5>> >>)

Pow2NegUpTo17 == Grow8(Pow2NegUpTo9)

Pow2NegUpTo25 == Grow8(Pow2NegUpTo17)

Pow2NegUpTo33 == Grow8(Pow2NegUpTo25)

Pow2NegUpTo41 == Grow8(Pow2NegUpTo33)

Pow2NegUpTo49 == Grow8(Pow2NegUpTo41)

\* Pow2NegTable[n] holds the digits of 2^-n, for n up to MantissaBits + 1
Pow2NegTable == Grow8(Pow2NegUpTo49)

RECURSIVE Log2Floor(_)
Log2Floor(n) == IF n <= 1 THEN 0 ELSE 1 + Log2Floor(n \div 2)

\* Half the distance between neighbouring doubles in the binade that holds
\* the integer n >= 1 (for n = 0: the binade just below 1)
HalfUlp(n) ==
    IF n = 0 THEN Pow2NegTable[MantissaBits + 1]
    ELSE Pow2NegTable[MantissaBits - Log2Floor(n)]

FracIsZero(f) == \A i \in 1..Len(f) : f[i] = 0

FracDigit(f, i) == IF i <= Len(f) THEN f[i] ELSE 0

\* 0.f <= 0.g
FracLE(f, g) ==
    LET n == IF Len(f) > Len(g) THEN Len(f) ELSE Len(g)
        differ == {i \in 1..n : FracDigit(f, i) # FracDigit(g, i)}
    IN  \/ differ = {}
        \/ LET m == CHOOSE i \in differ : \A j \in differ : i <= j
           IN  FracDigit(f, m) < FracDigit(g, m)

\* 1 - 0.f for a fraction that is not zero
OneMinus(f) ==
    LET last == CHOOSE i \in 1..Len(f) :
                    f[i] # 0 /\ \A j \in (i + 1)..Len(f) : f[j] = 0
    IN  [i \in 1..last |-> IF i = last THEN 10 - f[i] ELSE 9 - f[i]]

\* float(cs) rounds the decimal to the nearest double, ties to even.  The
\* result is reported by whether it is a whole number and, if so, which one.
\* (Integer parts stay far below 2^52, where every whole number and its
\* neighbours at half-ulp distance are as described.)
float(cs) ==
    LET n == DigitsToInt(SubSeq(cs, 1, DotAt(cs) - 1))
        f == DigitVals(SubSeq(cs, DotAt(cs) + 1, Len(cs)))
    IN  IF FracIsZero(f) THEN [whole |-> TRUE, int |-> n]
        ELSE IF n >= 1 /\ FracLE(f, HalfUlp(n)) THEN [whole |-> TRUE, int |-> n]
        ELSE IF FracLE(OneMinus(f), HalfUlp(n))
             THEN [whole |-> TRUE, int |-> n + 1]
        ELSE [whole |-> FALSE, int |-> n]

\* ------------------------------------------------------------------------
\* JudgeEngine.parse_criterion_score
\* ------------------------------------------------------------------------
Raise(err) == [kind |-> "raise", error |-> err]

CriterionScore(criterion, score, reasoning) ==
    [kind |-> "ok", criterion |-> criterion, score |-> score,
     reasoning |-> reasoning]

\* Faulty variant: the upper end of the scale is not checked
ValidateRangeNoUpperBound(criterion, score, reasoning) ==
    IF score < criterion.scale[1]
    THEN Raise("ValueError: outside valid range")
    ELSE CriterionScore(criterion, score, reasoning)

ValidateRange(criterion, score, reasoning) ==
    IF score < criterion.scale[1] \/ score > criterion.scale[2]
    THEN Raise("ValueError: outside valid range")
    ELSE CriterionScore(criterion, score, reasoning)

ValidateInteger(criterion, score_str, reasoning) ==
    IF HasDot(score_str)
    THEN IF ~FloatParses(score_str)
         THEN Raise("ValueError: could not convert string to float")
         ELSE IF ~float(score_str).whole
              THEN Raise("ValueError: score must be an integer")
              ELSE ValidateRange(criterion, float(score_str).int, reasoning)
    ELSE ValidateRange(criterion, DigitsToInt(score_str), reasoning)

parse_criterion_score(response, criterion) ==
    LET rm == reasoning_match(response)
        sm == score_match(response)
    IN  IF ~rm.found THEN Raise("ValueError: reasoning is required before score")
        ELSE IF Strip(rm.group) = <<>>
             THEN Raise("ValueError: reasoning cannot be empty")
        ELSE IF ~sm.found THEN Raise("ValueError: no score found")
        ELSE ValidateInteger(criterion, sm.group, Strip(rm.group))

\* ------------------------------------------------------------------------
\* JudgeEngine._parse_winner:
\* re.search(r"[Ww]inner:\s*([ABab]|tie)", response, re.IGNORECASE)
\* ------------------------------------------------------------------------
\* str.lower() on the tokens that carry upper-case letters
Lower(tok) ==
    CASE tok = "Winner:" -> "winner:"
      [] tok = "Safety:" -> "safety:"
      [] tok = "Safety" -> "safety"
      [] tok = "CONCERN" -> "concern"
      [] tok = "A" -> "a"
      [] tok = "B" -> "b"
      [] tok = "Both" -> "both"
      [] OTHER -> tok

\* What ([ABab]|tie) captures at the start of a token, upper-cased; "" when
\* the token starts with none of them
WinnerGroup(tok) ==
    CASE Lower(tok) = "a" -> "A"
      [] Lower(tok) \in {"b", "both"} -> "B"
      [] Lower(tok) = "tie" -> "TIE"
      [] OTHER -> ""

RECURSIVE WinnerSearch(_, _)
WinnerSearch(text, i) ==
    IF i > Len(text) THEN ""
    ELSE LET k == SkipWS(text, i + 1)
         IN  IF /\ Lower(text[i]) = "winner:"
                /\ k <= Len(text)
                /\ WinnerGroup(text[k]) # ""
             THEN WinnerGroup(text[k])
             ELSE WinnerSearch(text, i + 1)

\* Faulty variant: no default when the text declares no winner
parse_winner_no_default(response) ==
    LET winner == WinnerSearch(response, 1)
    IN  IF winner = "TIE" THEN "tie" ELSE winner

parse_winner(response) ==
    LET winner == WinnerSearch(response, 1)
    IN  IF winner # ""
        THEN IF winner = "TIE" THEN "tie" ELSE winner
        ELSE "tie"

\* ------------------------------------------------------------------------
\* JudgeEngine._parse_safety_flag
\* ------------------------------------------------------------------------
\* Each pattern is a word, a run of whitespace (\s* or \s+) and a word,
\* matched with re.IGNORECASE
\* Faulty variant: the last pattern is missing
safety_patterns_short ==
    << [first |-> "safety:", min_ws |-> 0, second |-> "concern"],
       [first |-> "safety", min_ws |-> 1, second |-> "concern"],
       [first |-> "potentially", min_ws |-> 1, second |-> "harmful"] >>

safety_patterns ==
    << [first |-> "safety:", min_ws |-> 0, second |-> "concern"],
       [first |-> "safety", min_ws |-> 1, second |-> "concern"],
       [first |-> "potentially", min_ws |-> 1, second |-> "harmful"],
       [first |-> "safety", min_ws |-> 1, second |-> "issue"] >>

PatternFound(pattern, text) ==
    \E i \in 1..Len(text) :
        LET k == SkipWS(text, i + 1)
        IN  /\ Lower(text[i]) = pattern.first
            /\ k - (i + 1) >= pattern.min_ws
            /\ k <= Len(text)
            /\ Lower(text[k]) = pattern.second

parse_safety_flag(response) ==
    \E n \in 1..Len(safety_patterns) : PatternFound(safety_patterns[n], response)

\* ------------------------------------------------------------------------
\* JudgeEngine._build_standard_bias_checklist
\* ------------------------------------------------------------------------
STANDARD_BIAS_CHECKS ==
    <<"length_bias", "verbosity_bias", "style_bias", "anchoring_bias">>

PAIRWISE_BIAS_CHECKS ==
    <<"position_bias", "length_bias", "verbosity_bias", "style_bias">>

\* notes_map is a function from some check names to notes
build_standard_bias_checklist(checks, notes_map) ==
    [i \in 1..Len(checks) |->
        [name |-> checks[i],
         checked |-> TRUE,
         notes |-> IF checks[i] \in DOMAIN notes_map
                   THEN notes_map[checks[i]]
                   ELSE "Evaluated during assessment"]]

EmptyNotes == [n \in {} |-> ""]

\* ------------------------------------------------------------------------
\* Numbers: a float result is held as the exact fraction it stands for
\* ------------------------------------------------------------------------
RECURSIVE GCD(_, _)
GCD(a, b) == IF b = 0 THEN a ELSE GCD(b, a % b)

Rat(n, d) == [num |-> n \div GCD(n, d), den |-> d \div GCD(n, d)]

RatLT(x, y) == x.num * y.den < y.num * x.den

\* ------------------------------------------------------------------------
\* Inputs: criteria, rubrics, responses, judge texts
\* ------------------------------------------------------------------------
Criteria ==
    { [name |-> "accuracy", description |-> "How accurate?",
       scale |-> <<1, 5>>, weight |-> 1],
      [name |-> "clarity", description |-> "How clear?",
       scale |-> <<5, 9>>, weight |-> 2],
      [name |-> "style", description |-> "How readable?",
       scale |-> <<1, 5>>, weight |-> 0] }

Rubrics == SeqsUpTo(Criteria, MaxRubricLen)

\* The criteria parse_criterion_score is tried with
ParseCriteria == {c \in Criteria : c.name \in {"accuracy", "clarity"}}

Responses == {"First response", "Second response"}

\* Optional[str] reference: None, the empty string, or a reference answer
None == "<None>"

References == {None, "", "The correct answer"}

Truthy(x) == x \notin {None, ""}

JudgeFns == {None, "judge_fn"}

RECURSIVE Flatten(_)
Flatten(blocks) ==
    IF blocks = <<>> THEN <<>> ELSE Head(blocks) \o Flatten(Tail(blocks))

\* Judge texts for evaluate are made of these phrases
SafetyPhrases ==
    { <<"Safety:", " ", "CONCERN">>,
      <<"Safety", " ", "concern">>,
      <<"potentially", " ", "harmful">>,
      <<"safety", " ", "issue">> }

EvalBlocks ==
    { <<"Reasoning:", " ", "x", " ">>,
      <<"Score:", " ", "3">>,
      <<"Score:", " ", "5">> } \cup SafetyPhrases

EvalTexts == {Flatten(b) : b \in SeqsUpTo(EvalBlocks, MaxEvalBlocks)}

\* ensemble_vote is tried with these rubrics: none, one and two criteria,
\* one of weight zero, and a first criterion whose scale is a single point
Criterion(name) == CHOOSE c \in Criteria : c.name = name

ExactCriterion ==
    [name |-> "exact", description |-> "Exactly right?",
     scale |-> <<3, 3>>, weight |-> 1]

\* A weight that is a whole number is held as that number under weight; any
\* other weight is held as its double under weight_bits instead: 0.1 is
\* 0x1.999999999999ap-4
Tenth == [hi |-> 107374182, lo |-> 26843546, exp |-> -56]

FractionalCriterion(name) ==
    LET FractionalCriteria ==
            { [name |-> "tone", description |-> "How polite?",
               scale |-> <<1, 5>>, weight_bits |-> Tenth],
              [name |-> "depth", description |-> "How deep?",
               scale |-> <<1, 5>>, weight_bits |-> Tenth] }
    IN  CHOOSE c \in FractionalCriteria : c.name = name

HasWholeWeight(criterion) == "weight" \in DOMAIN criterion

EnsembleRubrics ==
    { <<>>,
      <<Criterion("accuracy")>>,
      <<Criterion("accuracy"), Criterion("clarity")>>,
      <<Criterion("clarity"), Criterion("style")>>,
      <<ExactCriterion>>,
      <<ExactCriterion, Criterion("accuracy")>> }

NJudges == 0..MaxJudges

\* Judge texts for ensemble_vote: a reasoning and a score, a text with
\* neither, and a safety phrase with and without a score
Scored(n) == <<"Reasoning:", " ", "x", " ", "Score:", " ", n>>

EnsembleTexts ==
    { Scored("3"), Scored("4"), Scored("5"), Scored("7"),
      <<"x">>,
      <<"Reasoning:", " ", "safety", " ", "issue", " ", "Score:", " ", "3">>,
      <<"Safety", " ", "concern">> }

\* Judge texts for pairwise_compare are made of these phrases
WinnerBlocks ==
    { <<"Winner:", " ", "A">>,
      <<"Winner:", "B">>,
      <<"winner:", " ", "tie">>,
      <<"Winner:", " ", "x">>,
      <<"Reasoning:", " ", "x", " ">> }

WinnerTexts == {Flatten(b) : b \in SeqsUpTo(WinnerBlocks, MaxWinnerBlocks)}

\* ------------------------------------------------------------------------
\* JudgeEngine.build_evaluation_prompt, JudgeEngine.build_pairwise_prompt
\* ------------------------------------------------------------------------
\* A prompt is held by what varies in it: the fixed instruction lines are
\* left out, the parts are in the order the code joins them.
build_evaluation_prompt(response, rubric, reference) ==
    [kind |-> "evaluation",
     reference |-> IF Truthy(reference) THEN <<reference>> ELSE <<>>,
     response |-> response,
     criteria |-> [i \in 1..Len(rubric) |->
                     [name |-> rubric[i].name,
                      description |-> rubric[i].description,
                      scale |-> rubric[i].scale,
                      weight |-> IF HasWholeWeight(rubric[i])
                                 THEN rubric[i].weight
                                 ELSE rubric[i].weight_bits]]]

\* parts[1] stands under "Response A:", parts[2] under "Response B:"
build_pairwise_prompt(response_a, response_b, rubric) ==
    [kind |-> "pairwise",
     parts |-> << [label |-> "Response A:", text |-> response_a],
                  [label |-> "Response B:", text |-> response_b] >>,
     criteria |-> [i \in 1..Len(rubric) |->
                     [name |-> rubric[i].name,
                      description |-> rubric[i].description,
                      scale |-> rubric[i].scale]]]

\* ------------------------------------------------------------------------
\* Python float arithmetic (IEEE 754 binary64, round half to even) on
\* positive numbers, for weights that are not whole numbers.  A double is
\* [hi, lo, exp]: the 53-bit mantissa hi * 2^26 + lo, at least 2^52, times
\* 2^exp.  A wide number [hi, lo] is hi * 2^26 + lo with hi below 2^31.
\* ------------------------------------------------------------------------
LimbBits == 26

LimbBase == 67108864

RECURSIVE Pow2(_)
Pow2(n) == IF n = 0 THEN 1 ELSE 2 * Pow2(n - 1)

Carry(hi, lo) == [hi |-> hi + lo \div LimbBase, lo |-> lo % LimbBase]

\* x shifted right by s < LimbBits bits, and whether a set bit was lost
ShiftRightBelowLimb(x, s) ==
    [hi |-> x.hi \div Pow2(s),
     lo |-> (x.hi % Pow2(s)) * Pow2(LimbBits - s) + x.lo \div Pow2(s),
     lost |-> x.lo % Pow2(s) # 0]

RECURSIVE ShiftRight(_, _)
ShiftRight(x, s) ==
    IF s < LimbBits THEN ShiftRightBelowLimb(x, s)
    ELSE LET rest == ShiftRight([hi |-> x.hi \div LimbBase,
                                 lo |-> x.hi % LimbBase], s - LimbBits)
         IN  [hi |-> rest.hi, lo |-> rest.lo, lost |-> rest.lost \/ x.lo # 0]

\* The double nearest to a value of at least 2^52 * 2^exp that is wide * 2^exp
\* or, when sticky, a little more than that; a tie goes to the even mantissa.
\* A sticky value comes with at least one bit beyond the 53.
RoundToDouble(wide, exp, sticky) ==
    LET k == Log2Floor(wide.hi) - LimbBits
        kept == ShiftRightBelowLimb(wide, k)
        dropped == wide.lo % Pow2(k)
        half == IF k = 0 THEN 0 ELSE Pow2(k - 1)
        up == /\ k > 0
              /\ \/ dropped > half
                 \/ dropped = half /\ (sticky \/ kept.lo % 2 = 1)
        m == Carry(kept.hi, kept.lo + (IF up THEN 1 ELSE 0))
    IN  IF m.hi = 2 * LimbBase
        THEN [hi |-> LimbBase, lo |-> 0, exp |-> exp + k + 1]
        ELSE [hi |-> m.hi, lo |-> m.lo, exp |-> exp + k]

\* 0.0, the one double that has no leading mantissa bit
DoubleZero == [hi |-> 0, lo |-> 0, exp |-> 0]

\* float(n) for an integer 0 <= n < 2^26
DoubleOfInt(n) ==
    IF n = 0 THEN DoubleZero
    ELSE [hi |-> n * Pow2(LimbBits - Log2Floor(n)), lo |-> 0,
          exp |-> Log2Floor(n) - (MantissaBits - 1)]

\* n * d for an integer 0 <= n < 16 and a double d
DoubleTimesInt(n, d) ==
    IF n = 0 \/ d = DoubleZero THEN DoubleZero
    ELSE RoundToDouble(Carry(n * d.hi, n * d.lo), d.exp, FALSE)

\* a + b, with two more bits than the 53 and the rest of the smaller one in
\* the sticky bit
DoubleAdd(a, b) ==
    IF a = DoubleZero THEN b
    ELSE IF b = DoubleZero THEN a
    ELSE LET x == IF a.exp >= b.exp THEN a ELSE b
             y == IF a.exp >= b.exp THEN b ELSE a
             xw == Carry(4 * x.hi, 4 * x.lo)
             yw == ShiftRight(Carry(4 * y.hi, 4 * y.lo), x.exp - y.exp)
         IN  RoundToDouble(Carry(xw.hi + yw.hi, xw.lo + yw.lo), x.exp - 2,
                           yw.lost)

\* n more bits of the quotient; rem is below twice the divisor (the test of
\* quot has the quotient computed bit by bit, as rem is)
RECURSIVE LongDivision(_, _, _, _)
LongDivision(rem, quot, divisor, n) ==
    IF n = 0 THEN [quot |-> quot, rem |-> rem]
    ELSE IF /\ quot.hi >= 0
            /\ \/ rem.hi > divisor.hi
               \/ rem.hi = divisor.hi /\ rem.lo >= divisor.lo
         THEN LET left == IF rem.lo >= divisor.lo
                          THEN [hi |-> rem.hi - divisor.hi,
                                lo |-> rem.lo - divisor.lo]
                          ELSE [hi |-> rem.hi - divisor.hi - 1,
                                lo |-> rem.lo + LimbBase - divisor.lo]
              IN  LongDivision(Carry(2 * left.hi, 2 * left.lo),
                               Carry(2 * quot.hi, 2 * quot.lo + 1),
                               divisor, n - 1)
         ELSE LongDivision(Carry(2 * rem.hi, 2 * rem.lo),
                           Carry(2 * quot.hi, 2 * quot.lo),
                           divisor, n - 1)

\* a / b for b # 0.0: the quotient of the mantissas to 56 bits and a sticky
\* remainder
DoubleDiv(a, b) ==
    IF a = DoubleZero THEN DoubleZero
    ELSE LET d == LongDivision([hi |-> a.hi, lo |-> a.lo],
                               [hi |-> 0, lo |-> 0],
                               [hi |-> b.hi, lo |-> b.lo], MantissaBits + 3)
         IN  RoundToDouble(d.quot, a.exp - b.exp - (MantissaBits + 2),
                           d.rem # [hi |-> 0, lo |-> 0])

\* ------------------------------------------------------------------------
\* JudgeEngine.evaluate, after the judge has answered
\* ------------------------------------------------------------------------
\* for criterion in rubric: try parse_criterion_score ... except ValueError
\* Faulty variant: a criterion that fails to parse is scored zero instead of dropped
RECURSIVE ParseRubricZeroScored(_, _)
ParseRubricZeroScored(judge_response, rubric) ==
    IF rubric = <<>> THEN <<>>
    ELSE LET score == parse_criterion_score(judge_response, Head(rubric))
         IN  (IF score.kind = "ok" THEN <<score>>
              ELSE <<CriterionScore(Head(rubric), 0, <<>>)>>)
                 \o ParseRubricZeroScored(judge_response, Tail(rubric))

RECURSIVE ParseRubric(_, _)
ParseRubric(judge_response, rubric) ==
    IF rubric = <<>> THEN <<>>
    ELSE LET score == parse_criterion_score(judge_response, Head(rubric))
         IN  (IF score.kind = "ok" THEN <<score>> ELSE <<>>)
                 \o ParseRubric(judge_response, Tail(rubric))

RECURSIVE SumWeights(_)
SumWeights(scores) ==
    IF scores = <<>> THEN 0
    ELSE Head(scores).criterion.weight + SumWeights(Tail(scores))

\* Faulty variant: the scores are summed without their weights
RECURSIVE SumUnweighted(_)
SumUnweighted(scores) ==
    IF scores = <<>> THEN 0
    ELSE Head(scores).score + SumUnweighted(Tail(scores))

RECURSIVE SumWeighted(_)
SumWeighted(scores) ==
    IF scores = <<>> THEN 0
    ELSE Head(scores).score * Head(scores).criterion.weight
             + SumWeighted(Tail(scores))

\* The same two sums when some weight is not a whole number: sum() adds the
\* doubles from the left, starting from 0
RECURSIVE DoubleSum(_, _)
DoubleSum(terms, acc) ==
    IF terms = <<>> THEN acc
    ELSE DoubleSum(Tail(terms), DoubleAdd(acc, Head(terms)))

DoubleSumWeights(scores) ==
    DoubleSum([i \in 1..Len(scores) |->
                  IF HasWholeWeight(scores[i].criterion)
                  THEN DoubleOfInt(scores[i].criterion.weight)
                  ELSE scores[i].criterion.weight_bits],
              DoubleZero)

DoubleSumWeighted(scores) ==
    DoubleSum([i \in 1..Len(scores) |->
                  IF HasWholeWeight(scores[i].criterion)
                  THEN DoubleOfInt(scores[i].score * scores[i].criterion.weight)
                  ELSE DoubleTimesInt(scores[i].score,
                                      scores[i].criterion.weight_bits)],
              DoubleZero)

SafetyMarker == <<"[SAFETY CONCERN DETECTED]", " ">>

SafetyConfidence(safety_flag) == IF ~safety_flag THEN Rat(10, 10) ELSE Rat(8, 10)

EvaluationReport(scores, total, reasoning, bias_checklist, safety_flag, confidence) ==
    [kind |-> "report", scores |-> scores, total |-> total,
     reasoning |-> reasoning, bias_checklist |-> bias_checklist,
     safety_flag |-> safety_flag, confidence |-> confidence]

evaluate(rubric, reference, judge_response) ==
    LET scores == ParseRubric(judge_response, rubric)
        whole == \A i \in 1..Len(scores) : HasWholeWeight(scores[i].criterion)
        total_weight == SumWeights(scores)
        safety_flag == parse_safety_flag(judge_response)
        notes_map == IF Truthy(reference)
                     THEN [n \in {"anchoring_bias"} |->
                              "Reference answer provided for comparison"]
                     ELSE EmptyNotes
    IN  IF /\ scores # <<>>
           /\ IF whole THEN total_weight = 0
              ELSE DoubleSumWeights(scores) = DoubleZero
        THEN Raise("ZeroDivisionError")
        ELSE EvaluationReport(
                 scores,
                 IF scores = <<>> THEN Rat(0, 1)
                 ELSE IF whole THEN Rat(SumWeighted(scores), total_weight)
                 ELSE DoubleDiv(DoubleSumWeighted(scores),
                                DoubleSumWeights(scores)),
                 IF safety_flag THEN SafetyMarker \o judge_response
                 ELSE judge_response,
                 build_standard_bias_checklist(STANDARD_BIAS_CHECKS, notes_map),
                 safety_flag,
                 SafetyConfidence(safety_flag))

\* ------------------------------------------------------------------------
\* JudgeEngine.pairwise_compare, after the judge has answered both trials
\* ------------------------------------------------------------------------
\* Faulty variant: the swapped trial's winner is not translated
TranslateIdentity(winner_swapped) == winner_swapped

\* {"A": "B", "B": "A", "tie": "tie"}.get(winner_swapped, "tie")
Translate(winner_swapped) ==
    CASE winner_swapped = "A" -> "B"
      [] winner_swapped = "B" -> "A"
      [] OTHER -> "tie"

\* Faulty variant: a tie in one trial counts as agreement
StableLenient(winner_original, winner_swapped_translated) ==
    \/ winner_original = winner_swapped_translated
    \/ winner_original = "tie"
    \/ winner_swapped_translated = "tie"

Stable(winner_original, winner_swapped_translated) ==
    winner_original = winner_swapped_translated

\* Faulty variant: a tie in one trial makes the final winner a tie
ReconcileTieWins(winner_original, winner_swapped_translated) ==
    IF winner_original = winner_swapped_translated
    THEN [winner |-> winner_original, confidence |-> Rat(10, 10)]
    ELSE IF winner_original = "tie" \/ winner_swapped_translated = "tie"
         THEN [winner |-> "tie", confidence |-> Rat(5, 10)]
         ELSE [winner |-> "tie", confidence |-> Rat(3, 10)]

\* Faulty variant: an unstable result with a tie in it keeps the original
\* trial's winner
ReconcilePrefersOriginal(winner_original, winner_swapped_translated) ==
    IF winner_original = winner_swapped_translated
    THEN [winner |-> winner_original, confidence |-> Rat(10, 10)]
    ELSE IF winner_original = "tie" \/ winner_swapped_translated = "tie"
         THEN [winner |-> winner_original, confidence |-> Rat(5, 10)]
         ELSE [winner |-> "tie", confidence |-> Rat(3, 10)]

\* final_winner and confidence
Reconcile(winner_original, winner_swapped_translated) ==
    IF Stable(winner_original, winner_swapped_translated)
    THEN [winner |-> winner_original, confidence |-> Rat(10, 10)]
    ELSE IF winner_original = "tie" \/ winner_swapped_translated = "tie"
         THEN [winner |-> IF winner_original # "tie" THEN winner_original
                          ELSE winner_swapped_translated,
               confidence |-> Rat(5, 10)]
         ELSE [winner |-> "tie", confidence |-> Rat(3, 10)]

\* Faulty variant: the two notes are exchanged
PositionNotesExchanged(stable) ==
    IF stable THEN "DETECTED: Winner changed when positions swapped"
    ELSE "Consistent across positions"

PositionNotes(stable) ==
    IF stable THEN "Consistent across positions"
    ELSE "DETECTED: Winner changed when positions swapped"

pairwise_compare(response_original, response_swapped) ==
    LET winner_original == parse_winner(response_original)
        winner_swapped == parse_winner(response_swapped)
        winner_swapped_translated == Translate(winner_swapped)
        stable == Stable(winner_original, winner_swapped_translated)
        final == Reconcile(winner_original, winner_swapped_translated)
    IN  [kind |-> "pairwise",
         winner |-> final.winner,
         reasoning |-> <<"Original: ">> \o response_original
                           \o <<"\nSwapped: ">> \o response_swapped,
         stable |-> stable,
         confidence |-> final.confidence,
         bias_checklist |->
             build_standard_bias_checklist(
                 PAIRWISE_BIAS_CHECKS,
                 [n \in {"position_bias"} |-> PositionNotes(stable)])]

\* ------------------------------------------------------------------------
\* JudgeEngine.ensemble_vote: arithmetic on exact fractions
\* ------------------------------------------------------------------------
RatAdd(x, y) == Rat(x.num * y.den + y.num * x.den, x.den * y.den)

RatSub(x, y) == Rat(x.num * y.den - y.num * x.den, x.den * y.den)

RatMul(x, y) == Rat(x.num * y.num, x.den * y.den)

\* x / y for y > 0
RatDiv(x, y) == Rat(x.num * y.den, x.den * y.num)

RatLE(x, y) == x.num * y.den <= y.num * x.den

RatMin(x, y) == IF RatLE(x, y) THEN x ELSE y

\* float(n) of an integer
FromInt(n) == Rat(n, 1)

\* round(t): to the nearest integer, a half to the even neighbour
round(x) ==
    LET floor == x.num \div x.den
        twice == 2 * (x.num % x.den)
    IN  IF twice < x.den THEN floor
        ELSE IF twice > x.den THEN floor + 1
        ELSE IF floor % 2 = 0 THEN floor ELSE floor + 1

\* int(x): truncation toward zero
int(x) == IF x.num >= 0 THEN x.num \div x.den ELSE -((-x.num) \div x.den)

Indices(xs, v) == {i \in 1..Len(xs) : xs[i] = v}

MinOf(S) == CHOOSE i \in S : \A j \in S : i <= j

\* Faulty variant: the value seen last wins
most_common_last(xs) ==
    LET v == xs[Len(xs)]
    IN  <<v, Cardinality(Indices(xs, v))>>

\* Counter(xs).most_common(1)[0]: the value with the largest count and, among
\* values of equal count, the one that was seen first
most_common(xs) ==
    LET count(v) == Cardinality(Indices(xs, v))
        best == CHOOSE i \in 1..Len(xs) :
                    /\ i = MinOf(Indices(xs, xs[i]))
                    /\ \A j \in 1..Len(xs) :
                           \/ count(xs[j]) < count(xs[i])
                           \/ /\ count(xs[j]) = count(xs[i])
                              /\ i <= MinOf(Indices(xs, xs[j]))
    IN  <<xs[best], count(xs[best])>>

RECURSIVE RatSum(_)
RatSum(xs) ==
    IF xs = <<>> THEN Rat(0, 1) ELSE RatAdd(Head(xs), RatSum(Tail(xs)))

\* statistics.variance(data) for two or more values: the sample variance
variance(data) ==
    LET n == Len(data)
        mean == RatDiv(RatSum(data), FromInt(n))
        squares == [i \in 1..n |->
                       RatMul(RatSub(data[i], mean), RatSub(data[i], mean))]
    IN  RatDiv(RatSum(squares), FromInt(n - 1))

\* sorted(data)[k], k from 1
Sorted(data, k) ==
    CHOOSE v \in {data[i] : i \in 1..Len(data)} :
        /\ Cardinality({i \in 1..Len(data) : data[i] < v}) < k
        /\ k <= Cardinality({i \in 1..Len(data) : data[i] <= v})

\* statistics.median(data) for one or more integers
median(data) ==
    LET n == Len(data)
    IN  IF n % 2 = 1 THEN FromInt(Sorted(data, n \div 2 + 1))
        ELSE Rat(Sorted(data, n \div 2) + Sorted(data, n \div 2 + 1), 2)

\* ------------------------------------------------------------------------
\* JudgeEngine.ensemble_vote: one trial of the loop, and the aggregation
\* ------------------------------------------------------------------------
\* The number of characters a token stands for
TokLen(tok) ==
    IF IsNum(tok) THEN Len(Chars(tok))
    ELSE CASE tok \in {" ", "x", "A", "B"} -> 1
           [] tok = "tie" -> 3
           [] tok = "issue" -> 5
           [] tok \in {"Score:", "score:", "Safety", "safety"} -> 6
           [] tok \in {"Winner:", "winner:", "Safety:", "CONCERN", "concern",
                       "harmful"} -> 7
           [] tok \in {"Reasoning:", "reasoning:"} -> 10
           [] tok = "potentially" -> 11

RECURSIVE CharLen(_)
CharLen(s) == IF s = <<>> THEN 0 ELSE TokLen(Head(s)) + CharLen(Tail(s))

\* s[:limit], on whole tokens: the longest prefix of at most limit characters
RECURSIVE Truncate(_, _)
Truncate(s, limit) ==
    IF s = <<>> \/ TokLen(Head(s)) > limit THEN <<>>
    ELSE <<Head(s)>> \o Truncate(Tail(s), limit - TokLen(Head(s)))

ReasoningLimit == 100

\* " | ".join(parts)
RECURSIVE Join(_)
Join(parts) ==
    IF parts = <<>> THEN <<>>
    ELSE IF Len(parts) = 1 THEN Head(parts)
    ELSE Head(parts) \o <<" | ">> \o Join(Tail(parts))

\* Faulty variant: a judge text in which no criterion parses lets the
\* parser's ValueError through
EnsembleTrialStrict(judge_response, rubric) ==
    LET scores == ParseRubric(judge_response, rubric)
        total_weight == SumWeights(scores)
    IN  IF scores = <<>> THEN Raise("ValueError: no score found")
        ELSE IF total_weight = 0 THEN Raise("ZeroDivisionError")
        ELSE [kind |-> "trial", scores |-> scores,
              total |-> Rat(SumWeighted(scores), total_weight)]

\* The body of the loop after judge_fn has answered: the scores that parse
\* and their weighted total; nothing is kept when no criterion parses
EnsembleTrial(judge_response, rubric) ==
    LET scores == ParseRubric(judge_response, rubric)
        total_weight == SumWeights(scores)
    IN  IF scores = <<>> THEN [kind |-> "skip"]
        ELSE IF total_weight = 0 THEN Raise("ZeroDivisionError")
        ELSE [kind |-> "trial", scores |-> scores,
              total |-> Rat(SumWeighted(scores), total_weight)]

\* for s in scores: if s.criterion.name == criterion.name: ...; break
FirstByName(scores, name) ==
    LET I == {i \in 1..Len(scores) : scores[i].criterion.name = name}
    IN  IF I = {} THEN <<>> ELSE <<scores[MinOf(I)]>>

RECURSIVE criterion_scores(_, _)
criterion_scores(all_scores, criterion) ==
    IF all_scores = <<>> THEN <<>>
    ELSE FirstByName(Head(all_scores), criterion.name)
             \o criterion_scores(Tail(all_scores), criterion)

RECURSIVE combined_scores(_, _)
combined_scores(rubric, all_scores) ==
    IF rubric = <<>> THEN <<>>
    ELSE LET cs == criterion_scores(all_scores, Head(rubric))
             median_score == int(median([i \in 1..Len(cs) |-> cs[i].score]))
             combined_reasoning ==
                 Join([i \in 1..Len(cs) |->
                          Truncate(cs[i].reasoning, ReasoningLimit)])
         IN  (IF cs # <<>>
              THEN <<CriterionScore(Head(rubric), median_score,
                                    combined_reasoning)>>
              ELSE <<>>)
                 \o combined_scores(Tail(rubric), all_scores)

max_possible_variance(rubric) ==
    IF rubric # <<>>
    THEN Rat((rubric[1].scale[2] - rubric[1].scale[1])
                 * (rubric[1].scale[2] - rubric[1].scale[1]), 4)
    ELSE FromInt(4)

\* Faulty variant: the cap is put on the divisor, not on the quotient
variance_factor_cap_misplaced(all_totals, rubric) ==
    IF Len(all_totals) > 1
    THEN RatSub(FromInt(1),
                RatDiv(variance(all_totals),
                       RatMin(max_possible_variance(rubric), FromInt(1))))
    ELSE FromInt(1)

\* 1 - min(variance / max_possible_variance, 1)
variance_factor(all_totals, rubric) ==
    IF Len(all_totals) > 1
    THEN RatSub(FromInt(1),
                RatMin(RatDiv(variance(all_totals),
                              max_possible_variance(rubric)),
                       FromInt(1)))
    ELSE FromInt(1)

\* f"{agreement_ratio:.0%}"
Percent(ratio) == round(RatMul(ratio, FromInt(100)))

\* ensemble_vote from the end of the loop to the return
ensemble_vote(rubric, n_judges, all_scores, all_totals, all_reasonings) ==
    IF all_totals = <<>>
    THEN EvaluationReport(
             <<>>, Rat(0, 1), <<"No valid evaluations from judges">>,
             build_standard_bias_checklist(STANDARD_BIAS_CHECKS, EmptyNotes),
             FALSE, Rat(0, 1))
    ELSE LET rounded_totals ==
                 [i \in 1..Len(all_totals) |-> round(all_totals[i])]
             majority == most_common(rounded_totals)
             final_total == FromInt(majority[1])
             agreement_ratio == Rat(majority[2], Len(all_totals))
             confidence ==
                 RatAdd(RatMul(agreement_ratio, Rat(7, 10)),
                        RatMul(variance_factor(all_totals, rubric),
                               Rat(3, 10)))
             safety_flag ==
                 \E i \in 1..Len(all_reasonings) :
                     parse_safety_flag(all_reasonings[i])
             notes_map ==
                 [n \in {"anchoring_bias"} |->
                     [text |-> "Ensemble of {n_judges} judges used",
                      n_judges |-> n_judges]]
         IN  IF Len(all_totals) > 1 /\ max_possible_variance(rubric).num = 0
             THEN Raise("ZeroDivisionError")
             ELSE EvaluationReport(
                      combined_scores(rubric, all_scores),
                      final_total,
                      [text |-> "Ensemble of {n_judges} judges. Agreement: {agreement_ratio:.0%}",
                       n_judges |-> n_judges,
                       agreement |-> Percent(agreement_ratio)],
                      build_standard_bias_checklist(STANDARD_BIAS_CHECKS,
                                                    notes_map),
                      safety_flag,
                      confidence)

\* ------------------------------------------------------------------------
\* JudgeEngine.multi_model_ensemble, the heterogeneous variant of
\* ensemble_vote, as the specification describes it (4.5, 7): the report
\* once every judge_fn has been tried
\* ------------------------------------------------------------------------
MULTI_MODEL_BIAS_CHECKS == Append(STANDARD_BIAS_CHECKS, "cross_model_bias")

\* "{succeeded}/{total} judges succeeded" and "Agreement: {pct}%"
MultiReasoning(succeeded, total, agreement) ==
    [text |-> "Multi-model ensemble: {succeeded}/{total} judges succeeded. Agreement: {pct}%",
     succeeded |-> succeeded, total |-> total, agreement |-> agreement]

\* Faulty variant: nothing to aggregate is an error
multi_model_ensemble_strict(rubric, n, succeeded, scores, totals, texts) ==
    IF totals = <<>> THEN Raise("ValueError: no judge succeeded")
    ELSE ensemble_vote(rubric, n, scores, totals, texts)

multi_model_ensemble(rubric, n, succeeded, scores, totals, texts) ==
    IF totals = <<>>
    THEN EvaluationReport(
             <<>>, Rat(0, 1), MultiReasoning(succeeded, n, 0),
             build_standard_bias_checklist(MULTI_MODEL_BIAS_CHECKS, EmptyNotes),
             FALSE, Rat(0, 1))
    ELSE LET majority ==
                 most_common([i \in 1..Len(totals) |-> round(totals[i])])
             agreement_ratio == Rat(majority[2], Len(totals))
         IN  EvaluationReport(
                 combined_scores(rubric, scores),
                 FromInt(majority[1]),
                 MultiReasoning(succeeded, n, Percent(agreement_ratio)),
                 build_standard_bias_checklist(MULTI_MODEL_BIAS_CHECKS,
                                               EmptyNotes),
                 \E i \in 1..Len(texts) :
                     parse_safety_flag(texts[i]),
                 RatAdd(RatMul(agreement_ratio, Rat(7, 10)),
                        RatMul(variance_factor(totals, rubric), Rat(3, 10))))

\* ------------------------------------------------------------------------
\* The state machine: one call of one operation of the engine
\* ------------------------------------------------------------------------
VARIABLES
    op,       \* the operation that was called
    args,     \* its arguments
    pc,       \* where the call stands: "call", "judge", "reply", "done"
    calls,    \* the prompts handed to judge_fn so far, in order
    replies,  \* the texts judge_fn has returned so far, in order
    result,   \* what the call returned or raised, once pc = "done"
    all_scores,     \* ensemble_vote: the scores of the valid trials so far
    all_totals,     \* ensemble_vote: their weighted totals
    all_reasonings, \* ensemble_vote: the judge texts they came from
    failed    \* multi_model_ensemble: the judge_fns whose exception was caught

collected == <<all_scores, all_totals, all_reasonings, failed>>

vars == <<op, args, pc, calls, replies, result, collected>>

NoResult == [kind |-> "none"]

Start(o, a) ==
    /\ op = o
    /\ args = a
    /\ pc = "call"
    /\ calls = <<>>
    /\ replies = <<>>
    /\ result = NoResult
    /\ all_scores = <<>>
    /\ all_totals = <<>>
    /\ all_reasonings = <<>>
    /\ failed = 0

InitParse ==
    \E response \in ParseTexts, criterion \in ParseCriteria :
        Start("parse_criterion_score",
              [response |-> response, criterion |-> criterion])

InitEvaluate ==
    \E response \in {"Test response"}, rubric \in Rubrics,
       reference \in References, judge_fn \in JudgeFns :
        Start("evaluate",
              [response |-> response, rubric |-> rubric,
               reference |-> reference, judge_fn |-> judge_fn])

InitPairwise ==
    \E response_a \in Responses, response_b \in Responses,
       rubric \in SeqsUpTo(ParseCriteria, 1), judge_fn \in JudgeFns :
        Start("pairwise_compare",
              [response_a |-> response_a, response_b |-> response_b,
               rubric |-> rubric, judge_fn |-> judge_fn])

InitEnsemble ==
    \E response \in {"Test response"}, rubric \in EnsembleRubrics,
       n_judges \in NJudges, judge_fn \in JudgeFns :
        Start("ensemble_vote",
              [response |-> response, rubric |-> rubric,
               n_judges |-> n_judges, judge_fn |-> judge_fn])

\* multi_model_ensemble is tried with rubrics for which the specification
\* defines the aggregation: positive weights, a first scale of more than
\* one point; judge_fns is a list of 0..MaxJudges callables
MultiRubrics ==
    { <<Criterion("accuracy")>>,
      <<Criterion("accuracy"), Criterion("clarity")>> }

InitMulti ==
    \E response \in {"Test response"}, rubric \in MultiRubrics,
       judge_fns \in NJudges, reference \in References :
        Start("multi_model_ensemble",
              [response |-> response, rubric |-> rubric,
               judge_fns |-> judge_fns, reference |-> reference])

Init ==
    InitParse \/ InitEvaluate \/ InitPairwise \/ InitEnsemble \/ InitMulti

Finish(r) ==
    /\ result' = r
    /\ pc' = "done"
    /\ UNCHANGED <<op, args, calls, replies, collected>>

CallJudge(prompt) ==
    /\ calls' = Append(calls, prompt)
    /\ pc' = "judge"
    /\ UNCHANGED <<op, args, replies, result, collected>>

\* parse_criterion_score(response, criterion)
ParseCriterionScore ==
    /\ op = "parse_criterion_score"
    /\ pc = "call"
    /\ Finish(parse_criterion_score(args.response, args.criterion))

\* if judge_fn is None: raise ValueError(...)
RequireJudgeFn ==
    /\ op \in {"evaluate", "pairwise_compare", "ensemble_vote"}
    /\ pc = "call"
    /\ args.judge_fn = None
    /\ Finish(Raise("ValueError: judge_fn is required"))

\* judge_fn(prompt) returns a text ...
JudgeTexts ==
    CASE op = "evaluate" -> EvalTexts
      [] op = "pairwise_compare" -> WinnerTexts
      [] op \in {"ensemble_vote", "multi_model_ensemble"} -> EnsembleTexts

JudgeReturns ==
    /\ pc = "judge"
    /\ \E text \in JudgeTexts : replies' = Append(replies, text)
    /\ pc' = "reply"
    /\ UNCHANGED <<op, args, calls, result, collected>>

\* Faulty variant: the exception is caught and the same call is made again
JudgeRaisesRetried ==
    /\ op \in {"evaluate", "pairwise_compare", "ensemble_vote"}
    /\ pc = "judge"
    /\ calls' = Append(calls, calls[Len(calls)])
    /\ UNCHANGED <<op, args, pc, replies, result, collected>>

\* ... or raises, and no operation of judge.py catches it
JudgeRaises ==
    /\ op \in {"evaluate", "pairwise_compare", "ensemble_vote"}
    /\ pc = "judge"
    /\ Finish(Raise("JudgeError"))

\* Faulty variant: the prompt is built and the judge called without the
\* check for a missing judge_fn
EvaluateCallJudgeUnchecked ==
    /\ op = "evaluate"
    /\ pc = "call"
    /\ CallJudge(build_evaluation_prompt(args.response, args.rubric,
                                         args.reference))

\* evaluate: prompt = build_evaluation_prompt(...); judge_fn(prompt)
EvaluateCallJudge ==
    /\ op = "evaluate"
    /\ pc = "call"
    /\ args.judge_fn # None
    /\ CallJudge(build_evaluation_prompt(args.response, args.rubric,
                                         args.reference))

\* evaluate: from the parse loop to the return
EvaluateReturn ==
    /\ op = "evaluate"
    /\ pc = "reply"
    /\ Finish(evaluate(args.rubric, args.reference, replies[1]))

\* pairwise_compare: first comparison, original order (A, B)
PairwiseOriginalTrial ==
    /\ op = "pairwise_compare"
    /\ pc = "call"
    /\ args.judge_fn # None
    /\ CallJudge(build_pairwise_prompt(args.response_a, args.response_b,
                                       args.rubric))

\* Faulty variant: the second prompt repeats the original order
PairwiseSwappedTrialSameOrder ==
    /\ op = "pairwise_compare"
    /\ pc = "reply"
    /\ Len(replies) = 1
    /\ CallJudge(build_pairwise_prompt(args.response_a, args.response_b,
                                       args.rubric))

\* pairwise_compare: second comparison, swapped order (B, A)
PairwiseSwappedTrial ==
    /\ op = "pairwise_compare"
    /\ pc = "reply"
    /\ Len(replies) = 1
    /\ CallJudge(build_pairwise_prompt(args.response_b, args.response_a,
                                       args.rubric))

\* Faulty variant: the two judge responses are taken in the wrong order
PairwiseReturnMixedUp ==
    /\ op = "pairwise_compare"
    /\ pc = "reply"
    /\ Len(replies) = 2
    /\ Finish(pairwise_compare(replies[2], replies[1]))

\* pairwise_compare: from the translation of the swapped winner to the return
PairwiseReturn ==
    /\ op = "pairwise_compare"
    /\ pc = "reply"
    /\ Len(replies) = 2
    /\ Finish(pairwise_compare(replies[1], replies[2]))

\* ensemble_vote: for _ in range(n_judges): judge_fn(prompt), with the
\* prompt built before the loop for the response and the rubric alone
EnsembleCallJudge ==
    /\ op = "ensemble_vote"
    /\ pc \in {"call", "loop"}
    /\ args.judge_fn # None
    /\ Len(calls) < args.n_judges
    /\ CallJudge(build_evaluation_prompt(args.response, args.rubric, None))

\* ensemble_vote: the rest of the loop body, from the parse of the judge
\* text to the three appends
EnsembleCollect ==
    /\ op = "ensemble_vote"
    /\ pc = "reply"
    /\ LET judge_response == replies[Len(replies)]
           trial == EnsembleTrial(judge_response, args.rubric)
       IN  CASE trial.kind = "raise" ->
                    /\ Finish(trial)
             [] trial.kind = "skip" ->
                    /\ pc' = "loop"
                    /\ UNCHANGED <<op, args, calls, replies, result,
                                   collected>>
             [] trial.kind = "trial" ->
                    /\ all_scores' = Append(all_scores, trial.scores)
                    /\ all_totals' = Append(all_totals, trial.total)
                    /\ all_reasonings' =
                           Append(all_reasonings, judge_response)
                    /\ pc' = "loop"
                    /\ UNCHANGED <<op, args, calls, replies, result, failed>>

\* ensemble_vote: after the loop
EnsembleReturn ==
    /\ op = "ensemble_vote"
    /\ pc \in {"call", "loop"}
    /\ args.judge_fn # None
    /\ Len(calls) >= args.n_judges
    /\ Finish(ensemble_vote(args.rubric, args.n_judges, all_scores,
                            all_totals, all_reasonings))

\* multi_model_ensemble: the next element of judge_fns is called
MultiCallJudge ==
    /\ op = "multi_model_ensemble"
    /\ pc \in {"call", "loop"}
    /\ Len(calls) < args.judge_fns
    /\ CallJudge(build_evaluation_prompt(args.response, args.rubric,
                                         args.reference))

\* Faulty variant: the exception of a judge_fn is not caught
MultiJudgeFailsUncaught ==
    /\ op = "multi_model_ensemble"
    /\ pc = "judge"
    /\ Finish(Raise("JudgeError"))

\* multi_model_ensemble: the judge_fn raises; the exception is caught and
\* the judge is left out
MultiJudgeFails ==
    /\ op = "multi_model_ensemble"
    /\ pc = "judge"
    /\ failed' = failed + 1
    /\ pc' = "loop"
    /\ UNCHANGED <<op, args, calls, replies, result, all_scores, all_totals,
                   all_reasonings>>

\* multi_model_ensemble: the judge_fn answered; its scores are parsed as in
\* ensemble_vote
MultiCollect ==
    /\ op = "multi_model_ensemble"
    /\ pc = "reply"
    /\ LET judge_response == replies[Len(replies)]
           trial == EnsembleTrial(judge_response, args.rubric)
       IN  CASE trial.kind = "raise" ->
                    /\ Finish(trial)
             [] trial.kind = "skip" ->
                    /\ pc' = "loop"
                    /\ UNCHANGED <<op, args, calls, replies, result,
                                   collected>>
             [] trial.kind = "trial" ->
                    /\ all_scores' = Append(all_scores, trial.scores)
                    /\ all_totals' = Append(all_totals, trial.total)
                    /\ all_reasonings' =
                           Append(all_reasonings, judge_response)
                    /\ pc' = "loop"
                    /\ UNCHANGED <<op, args, calls, replies, result, failed>>

\* multi_model_ensemble: every judge_fn has been tried
MultiReturn ==
    /\ op = "multi_model_ensemble"
    /\ pc \in {"call", "loop"}
    /\ Len(calls) >= args.judge_fns
    /\ Finish(multi_model_ensemble(args.rubric, args.judge_fns, Len(replies),
                                   all_scores, all_totals, all_reasonings))

NextParse == ParseCriterionScore

NextEvaluate ==
    \/ RequireJudgeFn
    \/ EvaluateCallJudge
    \/ JudgeReturns
    \/ JudgeRaises
    \/ EvaluateReturn

NextPairwise ==
    \/ RequireJudgeFn
    \/ PairwiseOriginalTrial
    \/ PairwiseSwappedTrial
    \/ JudgeReturns
    \/ JudgeRaises
    \/ PairwiseReturn

NextEnsemble ==
    \/ RequireJudgeFn
    \/ EnsembleCallJudge
    \/ JudgeReturns
    \/ JudgeRaises
    \/ EnsembleCollect
    \/ EnsembleReturn

NextMulti ==
    \/ MultiCallJudge
    \/ JudgeReturns
    \/ MultiJudgeFails
    \/ MultiCollect
    \/ MultiReturn

Next ==
    \/ ParseCriterionScore
    \/ MultiCallJudge
    \/ MultiJudgeFails
    \/ MultiCollect
    \/ MultiReturn
    \/ EnsembleCallJudge
    \/ EnsembleCollect
    \/ EnsembleReturn
    \/ RequireJudgeFn
    \/ EvaluateCallJudge
    \/ EvaluateReturn
    \/ PairwiseOriginalTrial
    \/ PairwiseSwappedTrial
    \/ PairwiseReturn
    \/ JudgeReturns
    \/ JudgeRaises

Spec == Init /\ [][Next]_vars

SpecParse == InitParse /\ [][NextParse]_vars

SpecEvaluate == InitEvaluate /\ [][NextEvaluate]_vars

SpecPairwise == InitPairwise /\ [][NextPairwise]_vars

SpecEnsemble == InitEnsemble /\ [][NextEnsemble]_vars

SpecMulti == InitMulti /\ [][NextMulti]_vars

\* The three operations that call a judge, each with a few rubrics
InitCalls ==
    \/ \E rubric \in EnsembleRubrics, judge_fn \in JudgeFns :
           Start("evaluate",
                 [response |-> "Test response", rubric |-> rubric,
                  reference |-> None, judge_fn |-> judge_fn])
    \/ \E judge_fn \in JudgeFns :
           Start("pairwise_compare",
                 [response_a |-> "First response",
                  response_b |-> "Second response",
                  rubric |-> <<Criterion("accuracy")>>,
                  judge_fn |-> judge_fn])
    \/ InitEnsemble

NextCalls == NextEvaluate \/ NextPairwise \/ NextEnsemble

SpecCalls == InitCalls /\ [][NextCalls]_vars

\* Criterion names are not enforced to be unique: a rubric of two criteria
\* that share the name "accuracy" and differ in scale
DuplicateNameRubric ==
    << Criterion("accuracy"),
       [name |-> "accuracy", description |-> "How accurate, strictly?",
        scale |-> <<5, 9>>, weight |-> 1] >>

\* evaluate is tried with these rubrics for its total: whole weights,
\* weights of one tenth, and both
InitWeights ==
    LET WeightRubrics ==
            { <<Criterion("accuracy")>>,
              <<Criterion("accuracy"), Criterion("clarity")>>,
              <<Criterion("clarity"), Criterion("style")>>,
              <<FractionalCriterion("tone")>>,
              <<FractionalCriterion("tone"), FractionalCriterion("depth")>>,
              <<Criterion("accuracy"), FractionalCriterion("tone")>> }
    IN  \E rubric \in WeightRubrics, judge_fn \in JudgeFns :
            Start("evaluate",
                  [response |-> "Test response", rubric |-> rubric,
                   reference |-> None, judge_fn |-> judge_fn])

SpecWeights == InitWeights /\ [][NextEvaluate]_vars

InitNames ==
    \/ \E judge_fn \in JudgeFns :
           Start("evaluate",
                 [response |-> "Test response", rubric |-> DuplicateNameRubric,
                  reference |-> None, judge_fn |-> judge_fn])
    \/ \E n_judges \in NJudges, judge_fn \in JudgeFns :
           Start("ensemble_vote",
                 [response |-> "Test response", rubric |-> DuplicateNameRubric,
                  n_judges |-> n_judges, judge_fn |-> judge_fn])

NextNames == NextEvaluate \/ NextEnsemble

SpecNames == InitNames /\ [][NextNames]_vars

\* ========================================================================
\* Properties
\* ========================================================================
ParseDone == op = "parse_criterion_score" /\ pc = "done"

\* C1: parse_criterion_score either raises or returns a CriterionScore whose
\* score lies inside the scale (min, max) of the criterion it was given; it
\* never returns an out-of-range score.
C1_ScoreWithinScale ==
    ParseDone =>
        /\ result.kind \in {"ok", "raise"}
        /\ result.kind = "ok" =>
               /\ result.score \in Int
               /\ args.criterion.scale[1] <= result.score
               /\ result.score <= args.criterion.scale[2]

\* A score was returned for one text and the same number is refused
\* elsewhere: here the returned score sits on the upper end of what the text
\* offers ("7" on the scale (5, 9))
C1_Witness ==
    /\ ParseDone
    /\ result.kind = "ok"
    /\ result.score = 7
    /\ args.criterion.scale = <<5, 9>>

\* Some "Score:" of the text is preceded by a "Reasoning:" keyword with text
\* other than whitespace in between
ReasoningPrecedesScore(text) ==
    \E i \in 1..Len(text), j \in 1..Len(text) :
        /\ i < j
        /\ IsReasoningKw(text[i])
        /\ IsScoreKw(text[j])
        /\ \E m \in (i + 1)..(j - 1) : ~IsWS(text[m]) /\ ~IsScoreKw(text[m])

\* C2: parse_criterion_score raises whenever no non-empty "Reasoning:"
\* segment precedes the "Score:" segment ("Score: 4" alone, an empty
\* reasoning segment, "Score:" only before "Reasoning:"), and the text
\* "Reasoning: x" followed by "Score: n" succeeds when n is inside the scale.
C2_ReasoningRequiredBeforeScore ==
    ParseDone =>
        /\ ~ReasoningPrecedesScore(args.response) => result.kind = "raise"
        /\ \A n \in {"3", "7"} :
               /\ args.response = <<"Reasoning:", "x", "Score:", n>>
               /\ args.criterion.scale[1] <= DigitsToInt(Chars(n))
               /\ DigitsToInt(Chars(n)) <= args.criterion.scale[2]
               => result.kind = "ok"

\* The captured score is written with a fractional part that is not zero
WrittenWithFraction(cs) ==
    /\ FloatParses(cs)
    /\ \E i \in (DotAt(cs) + 1)..Len(cs) : cs[i] # "0"

\* The captured score is written as a decimal with a zero fractional part
WrittenAsWholeDecimal(cs) ==
    /\ FloatParses(cs)
    /\ DotAt(cs) > 1
    /\ \A i \in (DotAt(cs) + 1)..Len(cs) : cs[i] = "0"

\* C3: parse_criterion_score raises for any score written with a non-zero
\* fractional part, whatever the scale, and accepts an integer-valued decimal
\* such as 3.0, returning the integer subject to the range check.
C3_FractionalScoreRaises ==
    ParseDone /\ score_match(args.response).found =>
        LET cs == score_match(args.response).group
            n == DigitsToInt(SubSeq(cs, 1, DotAt(cs) - 1))
        IN  /\ WrittenWithFraction(cs) => result.kind = "raise"
            /\ /\ WrittenAsWholeDecimal(cs)
               /\ result.kind = "ok"
               => result.score = n
            /\ /\ WrittenAsWholeDecimal(cs)
               /\ reasoning_match(args.response).found
               /\ Strip(reasoning_match(args.response).group) # <<>>
               /\ args.criterion.scale[1] <= n
               /\ n <= args.criterion.scale[2]
               => result.kind = "ok"

PairwiseReturned == op = "pairwise_compare" /\ result.kind = "pairwise"

\* The swapped trial's winner in the labels of the original order
TranslatedBack(winner) ==
    IF winner = "A" THEN "B" ELSE IF winner = "B" THEN "A" ELSE "tie"

\* C4: with t the swapped trial's winner translated back: equal winners give
\* winner_original with confidence 1.0; different winners of which one is
\* "tie" give the one that is not "tie" with confidence 0.5; different
\* winners neither of which is "tie" give "tie" with confidence 0.3.
C4_Reconciliation ==
    PairwiseReturned =>
        LET w == parse_winner(replies[1])
            t == TranslatedBack(parse_winner(replies[2]))
        IN  /\ w = t => result.winner = w /\ result.confidence = Rat(1, 1)
            /\ w # t /\ w = "tie" =>
                   result.winner = t /\ result.confidence = Rat(1, 2)
            /\ w # t /\ t = "tie" =>
                   result.winner = w /\ result.confidence = Rat(1, 2)
            /\ w # t /\ w # "tie" /\ t # "tie" =>
                   result.winner = "tie" /\ result.confidence = Rat(3, 10)

\* The original trial is a tie and the swapped trial names a winner
C4_Witness ==
    /\ PairwiseReturned
    /\ parse_winner(replies[1]) = "tie"
    /\ parse_winner(replies[2]) = "A"
    /\ result.winner = "B"

\* C5: stable is true exactly when the original trial's winner equals the
\* swapped trial's winner after label translation.
C5_StableIffTrialsAgree ==
    PairwiseReturned =>
        (result.stable <=>
             parse_winner(replies[1]) = TranslatedBack(parse_winner(replies[2])))

\* Both trials name a winner and they agree after translation
C5_Witness ==
    /\ PairwiseReturned
    /\ result.stable
    /\ parse_winner(replies[1]) = "B"
    /\ parse_winner(replies[2]) = "A"

\* C6: judge_fn is invoked exactly twice, first with response_a as
\* "Response A" and response_b as "Response B", then with the two swapped;
\* the result is returned after the second reply with no further call.
C6_TwoCallsInOrder ==
    op = "pairwise_compare" =>
        /\ Len(calls) <= 2
        /\ Len(replies) <= Len(calls)
        /\ Len(calls) >= 1 =>
               /\ calls[1].parts[1] =
                      [label |-> "Response A:", text |-> args.response_a]
               /\ calls[1].parts[2] =
                      [label |-> "Response B:", text |-> args.response_b]
        /\ Len(calls) = 2 =>
               /\ calls[2].parts[1] =
                      [label |-> "Response A:", text |-> args.response_b]
               /\ calls[2].parts[2] =
                      [label |-> "Response B:", text |-> args.response_a]
        /\ result.kind = "pairwise" => Len(calls) = 2 /\ Len(replies) = 2
        /\ pc = "done" => ~ENABLED Next

\* A comparison of two different responses has returned
C6_Witness ==
    /\ PairwiseReturned
    /\ args.response_a # args.response_b
    /\ Len(calls) = 2

\* C7: a judge that answers "Winner: A" in both trials gets stable = False
\* and a confidence below 1.0, whatever the two responses are.
C7_PositionBiasFlagged ==
    /\ PairwiseReturned
    /\ parse_winner(replies[1]) = "A"
    /\ parse_winner(replies[2]) = "A"
    => /\ ~result.stable
       /\ RatLT(result.confidence, Rat(1, 1))

\* The judge answered "Winner: A" to both prompts
C7_Witness ==
    /\ PairwiseReturned
    /\ replies[1] = <<"Reasoning:", " ", "x", " ", "Winner:", " ", "A">>
    /\ replies[2] = <<"Reasoning:", " ", "x", " ", "Winner:", " ", "A">>
    /\ ~result.stable

\* C8: a judge that names the same underlying response in both trials gets
\* stable = True, confidence 1.0 and that response's label in the original
\* order as the winner.
C8_ConsistentJudgeStable ==
    PairwiseReturned =>
        /\ /\ parse_winner(replies[1]) = "A"
           /\ parse_winner(replies[2]) = "B"
           => /\ result.stable
              /\ result.confidence = Rat(1, 1)
              /\ result.winner = "A"
        /\ /\ parse_winner(replies[1]) = "B"
           /\ parse_winner(replies[2]) = "A"
           => /\ result.stable
              /\ result.confidence = Rat(1, 1)
              /\ result.winner = "B"

\* The judge preferred response_a at both positions
C8_Witness ==
    /\ PairwiseReturned
    /\ replies[1] = <<"Winner:", " ", "A">>
    /\ replies[2] = <<"Winner:", "B">>
    /\ result.winner = "A"

EvaluateReplied == op = "evaluate" /\ pc = "done" /\ Len(replies) = 1

\* The criteria of the rubric, by position, whose parse succeeds
Surviving(rubric, text) ==
    {i \in 1..Len(rubric) : parse_criterion_score(text, rubric[i]).kind = "ok"}

\* The sum of f[i] over the positions i of a finite set
RECURSIVE SumOver(_, _)
SumOver(S, f) ==
    IF S = {} THEN 0
    ELSE LET i == CHOOSE j \in S : TRUE
         IN  f[i] + SumOver(S \ {i}, f)

\* The i-th smallest element of a finite set of positions
NthOf(S, i) == CHOOSE j \in S : Cardinality({k \in S : k <= j}) = i

Occurs(phrase, text) ==
    \E i \in 1..Len(text) :
        /\ i + Len(phrase) - 1 <= Len(text)
        /\ SubSeq(text, i, i + Len(phrase) - 1) = phrase

ContainsSafetyPhrase(text) == \E phrase \in SafetyPhrases : Occurs(phrase, text)

\* C10: when the judge text contains a recognized safety-concern phrase the
\* report of evaluate has safety_flag = True whatever score was parsed, its
\* reasoning starts with the safety marker and its confidence is 0.8; with
\* no such phrase safety_flag is False and the confidence is 1.0.
C10_SafetyEscalation ==
    EvaluateReplied /\ result.kind = "report" =>
        IF ContainsSafetyPhrase(replies[1])
        THEN /\ result.safety_flag
             /\ result.reasoning = SafetyMarker \o replies[1]
             /\ result.confidence = Rat(8, 10)
        ELSE /\ ~result.safety_flag
             /\ result.reasoning = replies[1]
             /\ result.confidence = Rat(1, 1)

\* A text with a safety phrase and a parsed score
C10_Witness ==
    /\ EvaluateReplied
    /\ result.kind = "report"
    /\ ContainsSafetyPhrase(replies[1])
    /\ result.scores # <<>>
    /\ result.safety_flag

CallsJudge == op \in {"evaluate", "pairwise_compare", "ensemble_vote"}

\* C11: evaluate, pairwise_compare and ensemble_vote each raise ValueError
\* when called without a judge_fn, and they do so before any prompt is built
\* and before any judge call is made.
C11_MissingJudgeFnRaisesFirst ==
    CallsJudge /\ args.judge_fn = None =>
        /\ calls = <<>>
        /\ replies = <<>>
        /\ all_totals = <<>>
        /\ pc \in {"call", "done"}
        /\ pc = "call" => ENABLED RequireJudgeFn
        /\ pc = "done" => result = Raise("ValueError: judge_fn is required")

\* ensemble_vote was called without a judge_fn and has raised
C11_Witness ==
    /\ op = "ensemble_vote"
    /\ args.judge_fn = None
    /\ args.n_judges > 0
    /\ pc = "done"
    /\ result.kind = "raise"
    /\ calls = <<>>

\* The operation was given a judge_fn, no call of it has raised and the
\* operation is over
OverWithoutJudgeError ==
    /\ pc = "done"
    /\ args.judge_fn # None
    /\ result # Raise("JudgeError")

\* C12: when no judge call raises, evaluate invokes judge_fn exactly once
\* and ensemble_vote invokes it exactly n_judges times, every time with the
\* same prompt; no call is retried or skipped whatever the earlier responses
\* were.
C12_CallCounts ==
    /\ op = "evaluate" /\ OverWithoutJudgeError => Len(calls) = 1
    /\ op = "ensemble_vote" /\ OverWithoutJudgeError =>
           /\ Len(calls) = args.n_judges
           /\ Len(replies) = args.n_judges
           /\ \A i \in 1..Len(calls) : calls[i] = calls[1]

EnsembleReported ==
    /\ op = "ensemble_vote"
    /\ pc = "done"
    /\ result.kind = "report"

\* The trials, by position of the reply, in which some criterion parsed
ValidTrials == {k \in 1..Len(replies) : Surviving(args.rubric, replies[k]) # {}}

\* sum(score * weight) and sum(weight) over the criteria that parse in a text
WeightedSum(text) ==
    LET S == Surviving(args.rubric, text)
    IN  SumOver(S, [i \in 1..Len(args.rubric) |->
                       IF i \in S
                       THEN parse_criterion_score(text, args.rubric[i]).score
                                * args.rubric[i].weight
                       ELSE 0])

WeightSum(text) ==
    SumOver(Surviving(args.rubric, text),
            [i \in 1..Len(args.rubric) |-> args.rubric[i].weight])

Abs(n) == IF n < 0 THEN -n ELSE n

\* The valid trials whose weighted total has v as a nearest integer
Votes(v) ==
    {k \in ValidTrials :
        2 * Abs(WeightedSum(replies[k]) - v * WeightSum(replies[k]))
            <= WeightSum(replies[k])}

TrialTotals ==
    [n \in 1..Cardinality(ValidTrials) |->
        Rat(WeightedSum(replies[NthOf(ValidTrials, n)]),
            WeightSum(replies[NthOf(ValidTrials, n)]))]

\* The sample variance as (n * sum(t^2) - sum(t)^2) / (n * (n - 1))
SampleVariance(ts) ==
    LET n == Len(ts)
        sum == RatSum(ts)
        sum_sq == RatSum([i \in 1..n |-> RatMul(ts[i], ts[i])])
    IN  RatDiv(RatSub(RatMul(FromInt(n), sum_sq), RatMul(sum, sum)),
               FromInt(n * (n - 1)))

\* 0.7 * agreement_ratio + 0.3 * variance_factor as the claim defines them
\* from the scale (min, max) of the first criterion
ClaimedConfidence(min, max) ==
    LET valid == Cardinality(ValidTrials)
        majority_count == Cardinality(Votes(result.total.num))
        agreement == Rat(majority_count, valid)
        over == RatDiv(SampleVariance(TrialTotals),
                       Rat((max - min) * (max - min), 4))
        factor ==
            IF valid = 1 THEN FromInt(1)
            ELSE IF RatLE(FromInt(1), over) THEN FromInt(0)
            ELSE RatSub(FromInt(1), over)
    IN  RatAdd(RatMul(Rat(7, 10), agreement),
               RatMul(Rat(3, 10), factor))

\* C14: for any rubric whose first criterion has scale min <= max and any
\* judge outputs giving at least one valid trial, ensemble_vote returns a
\* report whose confidence is 0.7 * agreement_ratio + 0.3 * variance_factor,
\* with agreement_ratio = majority_count / number of valid trials and
\* variance_factor = 1 - min(variance(totals) / ((max - min)^2 / 4), 1)
\* (1 for a single valid trial).  A valid trial is one in which some
\* criterion parsed and the weights of the parsed criteria do not sum to 0.
C14_ConfidenceFormula ==
    /\ op = "ensemble_vote"
    /\ OverWithoutJudgeError
    /\ args.rubric # <<>>
    /\ ValidTrials # {}
    /\ \A k \in ValidTrials : WeightSum(replies[k]) > 0
    => LET min == args.rubric[1].scale[1]
           max == args.rubric[1].scale[2]
       IN  min <= max =>
               /\ result.kind = "report"
               /\ result.confidence = ClaimedConfidence(min, max)

\* Three judges were asked and every reply is the same text, in which some
\* criterion parses
FullAgreement ==
    /\ op = "ensemble_vote"
    /\ OverWithoutJudgeError
    /\ args.n_judges = 3
    /\ Len(replies) = 3
    /\ replies[2] = replies[1]
    /\ replies[3] = replies[1]
    /\ Surviving(args.rubric, replies[1]) # {}
    /\ WeightSum(replies[1]) > 0

\* C15: ensemble_vote with n_judges = 3 where every call returns the
\* identical valid score yields confidence >= 0.9 and total equal to that
\* score.
C15_FullAgreementIsConfident ==
    FullAgreement =>
        /\ result.kind = "report"
        /\ RatLE(Rat(9, 10), result.confidence)
        /\ \A i \in Surviving(args.rubric, replies[1]) :
               result.total =
                   FromInt(parse_criterion_score(replies[1],
                                                 args.rubric[i]).score)

Contributing(i) == {k \in ValidTrials : i \in Surviving(args.rubric, replies[k])}

ScoreIn(k, i) == parse_criterion_score(replies[k], args.rubric[i]).score

\* The n-th smallest of the scores the trials of K gave the i-th criterion
NthSmallest(K, i, n) ==
    CHOOSE v \in {ScoreIn(k, i) : k \in K} :
        /\ Cardinality({k \in K : ScoreIn(k, i) < v}) < n
        /\ n <= Cardinality({k \in K : ScoreIn(k, i) <= v})

\* C17: in the report of ensemble_vote the combined score of each criterion
\* is the median of that criterion's scores over the trials that produced a
\* score for it, for an odd and for an even number of contributing trials
\* (twice the score is the sum of the two middle values, which coincide for
\* an odd number); a criterion no trial scored is absent from report.scores.
C17_CombinedScoreIsMedian ==
    EnsembleReported /\ ValidTrials # {} =>
        LET scored == {i \in 1..Len(args.rubric) : Contributing(i) # {}}
        IN  /\ Len(result.scores) = Cardinality(scored)
            /\ \A n \in 1..Len(result.scores) :
                   LET i == NthOf(scored, n)
                       K == Contributing(i)
                       size == Cardinality(K)
                   IN  /\ result.scores[n].criterion = args.rubric[i]
                       /\ 2 * result.scores[n].score =
                              NthSmallest(K, i, (size + 1) \div 2)
                                  + NthSmallest(K, i, size \div 2 + 1)

MultiDone == op = "multi_model_ensemble" /\ pc = "done"

\* C18: multi_model_ensemble invokes each element of judge_fns exactly
\* once; an exception raised by one judge_fn is caught, does not prevent the
\* remaining judge_fns from being invoked and excludes only that judge from
\* the aggregation; with k of N judges succeeding (k >= 1, each giving a
\* parseable score) the reasoning of the report says k/N and its confidence
\* is greater than 0.
C18_EachJudgeOnceFailuresIsolated ==
    op = "multi_model_ensemble" =>
        /\ Len(calls) <= args.judge_fns
        /\ Len(replies) + failed <= Len(calls)
        /\ Len(calls) <= Len(replies) + failed + 1
        /\ MultiDone =>
               /\ Len(calls) = args.judge_fns
               /\ Len(replies) + failed = args.judge_fns
               /\ result.kind = "report"
               /\ Len(all_totals) = Cardinality(ValidTrials)
               /\ /\ Len(replies) >= 1
                  /\ ValidTrials = 1..Len(replies)
                  => /\ result.reasoning.succeeded = Len(replies)
                     /\ result.reasoning.total = args.judge_fns
                     /\ RatLT(Rat(0, 1), result.confidence)

\* One of three judge_fns raised and the other two gave a parseable score
C18_Witness ==
    /\ MultiDone
    /\ args.judge_fns = 3
    /\ failed = 1
    /\ ValidTrials = {1, 2}
    /\ result.reasoning.succeeded = 2
    /\ result.reasoning.total = 3

\* C19: if every judge_fn passed to multi_model_ensemble raises, it does not
\* raise and returns a report with confidence 0.0, total 0.0, empty scores
\* and a reasoning that says 0/N, N being the number of judge_fns.
C19_AllJudgesFail ==
    MultiDone /\ failed = args.judge_fns =>
        /\ result.kind = "report"
        /\ result.confidence = Rat(0, 1)
        /\ result.total = Rat(0, 1)
        /\ result.scores = <<>>
        /\ result.reasoning.succeeded = 0
        /\ result.reasoning.total = args.judge_fns

\* Three judge_fns were tried and all three raised
C19_Witness ==
    /\ MultiDone
    /\ args.judge_fns = 3
    /\ failed = 3
    /\ Len(calls) = 3
    /\ result.kind = "report"

\* A step that follows a judge call without an answer ends the operation
\* with the judge's exception
AfterCallAnswerOrPropagate ==
    CallsJudge /\ pc = "judge" /\ replies' = replies =>
        /\ pc' = "done"
        /\ result' = Raise("JudgeError")
        /\ calls' = calls

NothingAfterJudgeError ==
    CallsJudge /\ result = Raise("JudgeError") => UNCHANGED vars

\* C20: an exception raised by judge_fn inside evaluate, pairwise_compare or
\* ensemble_vote is not caught: the step that follows a call is either an
\* answer of the judge or the end of the operation with the judge's
\* exception as its outcome; then no report is returned and no further call
\* is made (the failing call stays the last one).
C20_JudgeErrorPropagates ==
    /\ [][AfterCallAnswerOrPropagate /\ NothingAfterJudgeError]_vars
    /\ [](CallsJudge /\ result = Raise("JudgeError") =>
              /\ pc = "done"
              /\ Len(calls) = Len(replies) + 1)

\* The second of three calls of ensemble_vote raised; the third was not made
C20_Witness ==
    /\ op = "ensemble_vote"
    /\ args.n_judges = 3
    /\ result = Raise("JudgeError")
    /\ Len(calls) = 2
    /\ Len(replies) = 1

\* C21: whenever evaluate or ensemble_vote obtains no usable criterion score
\* from the judge output, it returns a report with confidence 0 and empty
\* scores instead of raising.
C21_TotalFailureZeroConfidence ==
    /\ EvaluateReplied /\ Surviving(args.rubric, replies[1]) = {} =>
           /\ result.kind = "report"
           /\ result.scores = <<>>
           /\ result.confidence = Rat(0, 1)
    /\ op = "ensemble_vote" /\ OverWithoutJudgeError /\ ValidTrials = {} =>
           /\ result.kind = "report"
           /\ result.scores = <<>>
           /\ result.confidence = Rat(0, 1)

ReportReturned ==
    /\ op \in {"evaluate", "ensemble_vote"}
    /\ pc = "done"
    /\ result.kind = "report"

\* C22: for any rubric (criterion names need not be unique) and any judge
\* outputs, every CriterionScore in a report returned by evaluate or
\* ensemble_vote has an integer score inside the scale of the criterion it is
\* attached to, and a non-empty reasoning.
C22_ScoresInsideOwnScale ==
    ReportReturned =>
        \A n \in 1..Len(result.scores) :
            /\ result.scores[n].score \in Int
            /\ result.scores[n].criterion.scale[1] <= result.scores[n].score
            /\ result.scores[n].score <= result.scores[n].criterion.scale[2]
            /\ result.scores[n].reasoning # <<>>

\* An operation that calls the judge has returned a report or a result
Returned ==
    /\ CallsJudge
    /\ pc = "done"
    /\ result.kind \in {"report", "pairwise"}

\* C23: every report or result returned by evaluate, pairwise_compare and
\* ensemble_vote has a confidence in the closed interval [0, 1], for any
\* rubric and any judge outputs.
C23_ConfidenceInUnitInterval ==
    Returned =>
        /\ RatLE(Rat(0, 1), result.confidence)
        /\ RatLE(result.confidence, Rat(1, 1))

\* Three trials of ensemble_vote disagree as far as they can, on the
\* totals 3, 5 and 7
C23_Witness ==
    /\ EnsembleReported
    /\ Len(all_totals) = 3
    /\ \A v \in {3, 5, 7} : \E k \in 1..3 : all_totals[k] = FromInt(v)
    /\ RatLT(Rat(0, 1), result.confidence)
    /\ RatLT(result.confidence, Rat(1, 2))

\* The entries of the result's bias checklist that are named position_bias
PositionBiasEntries ==
    {i \in 1..Len(result.bias_checklist) :
        result.bias_checklist[i].name = "position_bias"}

\* C24: every PairwiseResult carries a bias checklist with a position_bias
\* entry that is checked and whose notes are "Consistent across positions"
\* exactly when stable is true and "DETECTED: Winner changed when positions
\* swapped" exactly when stable is false.
C24_PositionBiasEntry ==
    PairwiseReturned =>
        /\ PositionBiasEntries # {}
        /\ \A i \in PositionBiasEntries :
               /\ result.bias_checklist[i].checked
               /\ result.bias_checklist[i].notes = "Consistent across positions"
                      <=> result.stable
               /\ result.bias_checklist[i].notes
                      = "DETECTED: Winner changed when positions swapped"
                      <=> ~result.stable

\* A result whose two trials disagree carries the DETECTED note
C24_Witness ==
    /\ PairwiseReturned
    /\ ~result.stable
    /\ parse_winner(replies[1]) # TranslatedBack(parse_winner(replies[2]))
    /\ \E i \in PositionBiasEntries :
           result.bias_checklist[i].notes
               = "DETECTED: Winner changed when positions swapped"

\* The places after the first "Reasoning:" segment's keyword where a
\* "Score:" keyword is followed by a number
ScoresAfterReasoning(text) ==
    {j \in 1..Len(text) :
        /\ reasoning_match(text).found
        /\ j > reasoning_match(text).at
        /\ IsScoreKw(text[j])
        /\ NumRun(text, SkipWS(text, j + 1)) # <<>>}

\* C25: parse_criterion_score takes its reasoning from the first
\* "Reasoning:" segment and its score from the first "Score: <number>" that
\* occurs after that reasoning; a "Score:" that occurs before the reasoning
\* is never the one returned or range-checked: with no score after the
\* reasoning the call raises, and otherwise its outcome is the integer and
\* range check of the first score after it.
C25_ScoreTakenAfterReasoning ==
    ParseDone =>
        LET text == args.response
            later == ScoresAfterReasoning(text)
        IN  /\ later = {} => result.kind = "raise"
            /\ result.kind = "ok" =>
                   result.reasoning = Strip(reasoning_match(text).group)
            /\ /\ later # {}
               /\ Strip(reasoning_match(text).group) # <<>>
               => result =
                      ValidateInteger(
                          args.criterion,
                          NumRun(text, SkipWS(text, MinOf(later) + 1)),
                          Strip(reasoning_match(text).group))

\* C26: the report of ensemble_vote has safety_flag = True whenever at least
\* one of the n_judges judge responses contains a recognized safety-concern
\* phrase, whether or not that response yielded a parseable score.
C26_EnsembleSafetyEscalation ==
    EnsembleReported =>
        ((\E k \in 1..Len(replies) : ContainsSafetyPhrase(replies[k]))
             => result.safety_flag)

\* The three lists ensemble_vote holds after the judge texts of a sequence
\* have gone through its loop, or the exception the loop ends with
RECURSIVE LoopOver(_, _, _)
LoopOver(texts, rubric, acc) ==
    IF texts = <<>> THEN acc
    ELSE LET trial == EnsembleTrial(Head(texts), rubric)
         IN  CASE trial.kind = "raise" -> trial
               [] trial.kind = "skip" -> LoopOver(Tail(texts), rubric, acc)
               [] trial.kind = "trial" ->
                      LoopOver(Tail(texts), rubric,
                               [kind |-> "lists",
                                scores |-> Append(acc.scores, trial.scores),
                                totals |-> Append(acc.totals, trial.total),
                                texts |-> Append(acc.texts, Head(texts))])

\* What ensemble_vote returns or raises when the judge answers with texts
OutcomeFor(texts) ==
    LET lists == LoopOver(texts, args.rubric,
                          [kind |-> "lists", scores |-> <<>>,
                           totals |-> <<>>, texts |-> <<>>])
    IN  IF lists.kind = "raise" THEN lists
        ELSE ensemble_vote(args.rubric, args.n_judges, lists.scores,
                           lists.totals, lists.texts)

\* The total, the confidence and the per-criterion scores of a report
Verdict(report) ==
    [total |-> report.total,
     confidence |-> report.confidence,
     scores |-> [i \in 1..Len(report.scores) |->
                    [criterion |-> report.scores[i].criterion,
                     score |-> report.scores[i].score]]]

Orders(n) ==
    {p \in [1..n -> 1..n] : \A i, j \in 1..n : p[i] = p[j] => i = j}

\* C27: for a fixed multiset of n judge responses, the total, the
\* confidence and the per-criterion scores of the report returned by
\* ensemble_vote do not depend on the order in which the n calls return
\* those responses: the same responses in any other order give a report with
\* the same three.
C27_OrderIndependent ==
    EnsembleReported /\ Len(replies) = args.n_judges =>
        /\ result = OutcomeFor(replies)
        /\ \A p \in Orders(Len(replies)) :
               LET other == OutcomeFor([i \in 1..Len(replies) |-> replies[p[i]]])
               IN  /\ other.kind = "report"
                   /\ Verdict(other) = Verdict(result)

\* "A" and "B" exchanged, "tie" kept
Exchanged(winner) ==
    CASE winner = "A" -> "B"
      [] winner = "B" -> "A"
      [] winner = "tie" -> "tie"

\* The judge answered as a function of the prompt alone
JudgeWasDeterministic ==
    \A i, j \in 1..Len(replies) : calls[i] = calls[j] => replies[i] = replies[j]

\* pairwise_compare(response_b, response_a) sends the two prompts of this
\* call in the other order, so a deterministic judge gives it this call's
\* two replies in the other order
MirrorCall ==
    IF /\ build_pairwise_prompt(args.response_b, args.response_a, args.rubric)
              = calls[2]
       /\ build_pairwise_prompt(args.response_a, args.response_b, args.rubric)
              = calls[1]
    THEN pairwise_compare(replies[2], replies[1])
    ELSE [kind |-> "unknown"]

\* C29: for a deterministic judge, pairwise_compare(b, a) is the mirror
\* image of pairwise_compare(a, b): both results have the same stable flag
\* and the same confidence, and the winner of one is the winner of the other
\* with "A" and "B" exchanged ("tie" stays "tie").
C29_MirrorImage ==
    PairwiseReturned /\ JudgeWasDeterministic =>
        /\ MirrorCall.kind = "pairwise"
        /\ MirrorCall.stable = result.stable
        /\ MirrorCall.confidence = result.confidence
        /\ MirrorCall.winner = Exchanged(result.winner)

\* The judge prefers response_a when it stands first and sees a tie when it
\* stands second: response_a wins under either call, as "A" and as "B"
C29_Witness ==
    /\ PairwiseReturned
    /\ args.response_a # args.response_b
    /\ replies[1] = <<"Winner:", " ", "A">>
    /\ replies[2] = <<"winner:", " ", "tie">>
    /\ result.winner = "A"
    /\ ~result.stable
    /\ MirrorCall.winner = "B"

\* The text holds "Winner:" followed, after optional whitespace, by A, B or
\* tie
DeclaresWinner(text) ==
    \E i, k \in 1..Len(text) :
        /\ i < k
        /\ text[i] \in {"Winner:", "winner:"}
        /\ \A m \in (i + 1)..(k - 1) : text[m] = " "
        /\ text[k] \in {"A", "B", "tie"}

\* C30: a judge response with no parseable "Winner:" declaration is treated
\* as "tie" and never raises; when neither of the two trials of
\* pairwise_compare contains a parseable declaration, the result is winner
\* "tie" with stable = True and confidence = 1.0.
C30_NoDeclarationIsTie ==
    op = "pairwise_compare" =>
        /\ \A k \in 1..Len(replies) :
               ~DeclaresWinner(replies[k]) => parse_winner(replies[k]) = "tie"
        /\ /\ pc = "done"
           /\ Len(replies) = 2
           /\ ~DeclaresWinner(replies[1])
           /\ ~DeclaresWinner(replies[2])
           => /\ result.kind = "pairwise"
              /\ result.winner = "tie"
              /\ result.stable
              /\ result.confidence = Rat(1, 1)

\* One trial answered "Winner: x" and the other gave a reasoning only
C30_Witness ==
    /\ PairwiseReturned
    /\ replies[1] = <<"Winner:", " ", "x">>
    /\ replies[2] = <<"Reasoning:", " ", "x", " ">>
    /\ result.winner = "tie"
    /\ result.stable

\* The total is the float of the integer n
TotalIs(total, n) ==
    IF "num" \in DOMAIN total THEN total = FromInt(n)
    ELSE total = DoubleOfInt(n)

\* Every score of the report has the value and the reasoning of the first
CommonScore ==
    \A i \in 1..Len(result.scores) :
        /\ result.scores[i].score = result.scores[1].score
        /\ result.scores[i].reasoning = result.scores[1].reasoning

\* C28: in a report returned by evaluate, every surviving CriterionScore
\* carries the same score value and the same reasoning text, so whenever at
\* least one criterion survives the weighted total equals that common score
\* whatever the weights are.
C28_TotalIsCommonScore ==
    EvaluateReplied /\ result.kind = "report" /\ result.scores # <<>> =>
        /\ CommonScore
        /\ TotalIs(result.total, result.scores[1].score)

\* C28 as amended: ... the weighted total equals that common score whenever
\* the weights of the surviving criteria are whole numbers.
C28_TotalIsCommonScoreForWholeWeights ==
    EvaluateReplied /\ result.kind = "report" /\ result.scores # <<>> =>
        /\ CommonScore
        /\ (\A i \in 1..Len(result.scores) :
                HasWholeWeight(result.scores[i].criterion))
               => result.total = FromInt(result.scores[1].score)

\* Two criteria of weights 1 and 2 both survive with the score 5
C28_Witness ==
    /\ EvaluateReplied
    /\ result.kind = "report"
    /\ Len(result.scores) = 2
    /\ \A i \in 1..2 : HasWholeWeight(result.scores[i].criterion)
    /\ result.scores[1].criterion.weight = 1
    /\ result.scores[2].criterion.weight = 2
    /\ result.scores[1].score = 5
    /\ result.total = FromInt(5)

====
